---------------------------- MODULE Spec2Model ----------------------------
(***************************************************************************)
(* Account provisioning and authentication of kaanoongpt                   *)
(* (src/routers/auth.py, src/models/user.py).                              *)
(*                                                                         *)
(* The two collections (users, pending_users) are sets of documents.  A    *)
(* request handler is a coroutine: it gives up control only at an await    *)
(* of store I/O, so one action below is the store operation a handler      *)
(* awaits together with the synchronous code that follows it up to the     *)
(* next await (send_otp_email has no await in its body and so runs inside  *)
(* the step that calls it).  proc[p] holds the local variables of the      *)
(* request running in slot p, its response once it has one, and two        *)
(* history fields: seen, the pending user as find_one returned it (the     *)
(* handlers then assign to their local document, pend), and utcnow, the    *)
(* time the request ran at.                                                *)
(*                                                                         *)
(* Spec runs one request at a time (every handler runs to its response     *)
(* before the next request starts); SpecConc interleaves the steps of      *)
(* several requests; SpecFault is Spec with store operations that raise;  *)
(* SpecSession runs login, the callback and the bearer-token dependency    *)
(* over users stored before the run, on the time scale of a token's life.  *)
(* SpecSignup runs signup with any organization_type; SpecPassword applies *)
(* hash_password and verify_password to passwords about the input limit   *)
(* of bcrypt; SpecGuess interleaves verify_otp requests on a pending user  *)
(* one failed attempt short of the lock.                                   *)
(***************************************************************************)
EXTENDS Integers, FiniteSets, Sequences, TLC

VARIABLES
    users,      \* the "users" collection: a set of User documents
    pending,    \* the "pending_users" collection: a set of PendingUser documents
    now,        \* datetime.utcnow(), in minutes
    mailbox,    \* email -> the OTP of the last notification delivered to it
    faults,     \* store operations that have raised so far
    proc        \* slot -> the local state of the request running in it

vars == <<users, pending, now, mailbox, faults, proc>>

---------------------------------------------------------------------------
(* Bounds of the model *)

\* the clock stops at MaxTime minutes
MaxTime == 15
\* the clock advances TimeStep minutes at a time
TimeStep == 5
\* requests the interleaved specification runs, one per slot
NumProcs == 3
\* store operations that may raise in one run of SpecFault
MaxFaults == 1
\* the clock of SpecSession stops at MaxTokenTime minutes
MaxTokenTime == 120
\* the clock of SpecSession advances TokenStep minutes at a time
TokenStep == 30

(* Policy values of the program *)

\* verify_otp: pending_user.is_otp_expired(expiry_minutes=10)
OTP_EXPIRY_MINUTES == 10
\* verify_otp: pending_user.is_locked(max_attempts=5)
MAX_OTP_ATTEMPTS == 5
ACCESS_TOKEN_EXPIRE_MINUTES == 60

(* Inputs *)

Emails == {"a@x.com"}
Passwords == {"longpassword1", "longpassword2"}
\* passwords a login request submits
LoginPasswords == Passwords
\* values generate_otp() returns and values a caller submits
Codes == {"111111", "222222"}
\* the "sub" claim of the identity provider
Subjects == {"g-1"}
OrgTypes == {"student"}
\* organization_type values a signup request may carry: the eight of the
\* enumeration and one outside it
OrgInputs ==
    {"law_firm", "corporate", "government", "ngo", "individual", "student",
     "researcher", "other", "company"}

Procs == 1..NumProcs
SerialProcs == {1}

---------------------------------------------------------------------------
(* Documents *)

\* Python's None for an Optional[str] field
None == ""

NoUser ==
    [id |-> 0, email |-> None, hashed_password |-> None, google_id |-> None,
     organization_type |-> None, is_email_verified |-> FALSE, is_active |-> FALSE]

NoPending ==
    [id |-> 0, email |-> None, hashed_password |-> None, organization_type |-> None,
     otp_code |-> None, otp_created_at |-> 0, otp_attempts |-> 0]

\* the key of the server, os.getenv("SECRET_KEY"), and any other key
SECRET_KEY == "SECRET_KEY"
OtherKey == "other key"

\* a credential that is no token of anyone
NoToken == [sub |-> None, user_id |-> 0, exp |-> 0, key |-> None]

\* is_otp_expired with the expiry time itself counted as expired
is_otp_expired_inclusive(p, expiry_minutes, utcnow) ==
    LET expiry_time == p.otp_created_at + expiry_minutes
    IN  utcnow >= expiry_time

\* PendingUser.is_otp_expired
is_otp_expired(p, expiry_minutes, utcnow) ==
    LET expiry_time == p.otp_created_at + expiry_minutes
    IN  utcnow > expiry_time

\* is_locked with the cap reached one attempt early
is_locked_early(p, max_attempts) == p.otp_attempts >= max_attempts - 1

\* is_locked with a strict comparison
is_locked_strict(p, max_attempts) == p.otp_attempts > max_attempts

\* PendingUser.is_locked
is_locked(p, max_attempts) == p.otp_attempts >= max_attempts

\* a password of 71 bytes, to build passwords about the input limit of bcrypt
Long71 ==
    "xxxxxxxxxxxxxxxxxxxxxxxxxxxxxxxxxxxxxxxxxxxxxxxxxxxxxxxxxxxxxxxxxxxxxxx"

\* passwords given to hash_password and verify_password: short ones, two of
\* 72 bytes, and four longer ones that agree on their first 72 bytes
HashInputs ==
    <<"p", "q", "longpassword1", "longpassword2",
      Long71 \o "x", Long71 \o "y",
      Long71 \o "xa", Long71 \o "xb", Long71 \o "xab", Long71 \o "xba">>

\* bcrypt reads no more than the first 72 bytes of its input
BCRYPT_MAX_BYTES == 72

\* hashlib.sha256(password.encode('utf-8')).hexdigest(): 64 characters, and
\* (no collisions) another 64 characters for another password; here the
\* digests differ in their last character
sha256_hexdigest(password) ==
    LET i == CHOOSE j \in 1..Len(HashInputs) : HashInputs[j] = password
    IN  "000000000000000000000000000000000000000000000000000000000000000"
        \o <<"0", "1", "2", "3", "4", "5", "6", "7", "8", "9">>[i]

\* bcrypt.hashpw(secret, salt): a function of the salt and of the first 72
\* bytes of the secret (the salt, kept in the hash, is left out)
bcrypt_hashpw(secret) ==
    "$2b$12$" \o SubSeq(secret, 1, IF Len(secret) < BCRYPT_MAX_BYTES
                                    THEN Len(secret) ELSE BCRYPT_MAX_BYTES)

\* bcrypt.checkpw(secret, hashed): hashes the secret with the salt of the hash
bcrypt_checkpw(secret, hashed) == bcrypt_hashpw(secret) = hashed

\* a hash_password that gives the password itself to bcrypt
hash_password_no_prehash(password) == bcrypt_hashpw(password)

\* hash_password: bcrypt over the SHA256 hex digest of the password
hash_password(password) == bcrypt_hashpw(sha256_hexdigest(password))

\* create_access_token: the claims of the signed token
create_access_token(sub, user_id, utcnow) ==
    [sub |-> sub, user_id |-> user_id, exp |-> utcnow + ACCESS_TOKEN_EXPIRE_MINUTES,
     key |-> SECRET_KEY]

\* a decode that refuses a token at the very time of its "exp"
jwt_decode_strict(token, utcnow) ==
    IF token.key # SECRET_KEY THEN "JWTError"
    ELSE IF token.exp <= utcnow THEN "ExpiredSignatureError"
    ELSE token.sub

\* jwt.decode(token, SECRET_KEY) in get_current_user: the "sub" claim of a
\* token signed with SECRET_KEY, unless its "exp" has passed
jwt_decode(token, utcnow) ==
    IF token.key # SECRET_KEY THEN "JWTError"
    ELSE IF token.exp < utcnow THEN "ExpiredSignatureError"
    ELSE token.sub

---------------------------------------------------------------------------
(* The document store (beanie over MongoDB) *)

\* Document.find_one(Model.email == email): the documents a lookup may return.
\* Neither collection declares an index, so several documents may match and
\* the store returns one of them.
find_one_nothing(coll, email) == {}

find_one(coll, email) == {d \in coll : d.email = email}

\* the _id the store gives a new document: one no document or local object holds
NewId ==
    LET used == {d.id : d \in users} \cup {d.id : d \in pending}
                \cup {proc[p].user.id : p \in Procs}
                \cup {proc[p].pend.id : p \in Procs}
    IN  CHOOSE i \in 1..(Cardinality(used) + 1) : i \notin used

\* Document.insert(): adds the document; no unique index refuses it
insert(coll, doc) == coll \cup {doc}

\* a save that never reaches the store
save_lost(coll, doc) == coll

\* Document.save(): replaces the document with this _id, inserting it if absent
save(coll, doc) == {d \in coll : d.id # doc.id} \cup {doc}

\* a delete that never reaches the store
delete_lost(coll, doc) == coll

\* Document.delete(): removes the document with this _id, if any
delete(coll, doc) == {d \in coll : d.id # doc.id}

---------------------------------------------------------------------------
(* Requests *)

Idle ==
    [op |-> "idle", pc |-> "idle", email |-> None, password |-> None, otp |-> None,
     org |-> None, sub |-> None, user |-> NoUser, pend |-> NoPending, seen |-> NoPending,
     code |-> None, utcnow |-> 0, status |-> 0, detail |-> "", remaining |-> -1,
     token |-> NoToken, mail |-> "none", auth |-> "none", outcome |-> "none",
     plain |-> None]

Init ==
    /\ users = {}
    /\ pending = {}
    /\ now = 0
    /\ mailbox = [e \in Emails |-> None]
    /\ faults = 0
    /\ proc = [p \in Procs |-> Idle]

\* no request is between its first step and its response
Quiet == \A p \in Procs : proc[p].pc \in {"idle", "done"}

\* the handler's response: HTTPException(status_code, detail) or the returned body
Respond(p, l, status, detail) ==
    proc' = [proc EXCEPT ![p] = [l EXCEPT !.pc = "done", !.status = status, !.detail = detail]]

\* slot p takes the next request: slots are used in order
Free(p) ==
    /\ proc[p].pc = "idle"
    /\ \A q \in Procs : q < p => proc[q].pc # "idle"

\* time passes between requests (a handler runs in far less than TimeStep)
Tick ==
    /\ Quiet
    /\ now + TimeStep <= MaxTime
    /\ now' = now + TimeStep
    /\ UNCHANGED <<users, pending, mailbox, faults, proc>>

\* the client has read the response; the slot is free again
Return(p) ==
    /\ proc[p].pc = "done"
    /\ proc' = [proc EXCEPT ![p] = Idle]
    /\ UNCHANGED <<users, pending, now, mailbox, faults>>

---------------------------------------------------------------------------
(* POST /auth/signup *)

\* SignupRequest.validate_organization_type: the values it lets through
allowed == {"law_firm", "corporate", "government", "ngo", "individual", "student", "other"}

validate_organization_type(v) == v \in allowed

\* the request body is validated before the handler runs: 422 when the
\* validator raises
SignupRequest(p, e, pw, o) ==
    LET l == [Idle EXCEPT !.op = "signup", !.utcnow = now,
                          !.email = e, !.password = pw, !.org = o]
    IN  IF validate_organization_type(o)
        THEN proc' = [proc EXCEPT ![p] = [l EXCEPT !.pc = "s_find_user"]]
        ELSE Respond(p, l, 422, "organization_type must be one of")

StartSignup(p) ==
    /\ Free(p)
    /\ \E e \in Emails, pw \in Passwords, o \in OrgTypes : SignupRequest(p, e, pw, o)
    /\ UNCHANGED <<users, pending, now, mailbox, faults>>

\* a signup request with any organization_type
StartSignupAny(p) ==
    /\ Free(p)
    /\ \E e \in Emails, pw \in Passwords, o \in OrgInputs : SignupRequest(p, e, pw, o)
    /\ UNCHANGED <<users, pending, now, mailbox, faults>>

\* existing_user = await User.find_one(...); 400 if one exists
SignupFindUser(p) ==
    LET l == proc[p] IN
    /\ l.pc = "s_find_user"
    /\ IF find_one(users, l.email) # {}
       THEN Respond(p, l, 400, "Email already registered")
       ELSE proc' = [proc EXCEPT ![p].pc = "s_find_pending"]
    /\ UNCHANGED <<users, pending, now, mailbox, faults>>

\* signup's "Create new pending user" branch: PendingUser(...), not yet inserted
NewPendingUser(l, otp_code, utcnow) ==
    [id |-> 0, email |-> l.email, hashed_password |-> hash_password(l.password),
     organization_type |-> l.org, otp_code |-> otp_code, otp_created_at |-> utcnow,
     otp_attempts |-> 0]

\* the update branch without the reset of otp_attempts
UpdatePendingUser_keeps_attempts(d, l, otp_code, utcnow) ==
    [d EXCEPT !.hashed_password = hash_password(l.password),
              !.organization_type = l.org,
              !.otp_code = otp_code,
              !.otp_created_at = utcnow]

\* signup's "Update existing pending user" branch: the assignments to the
\* document found
UpdatePendingUser(d, l, otp_code, utcnow) ==
    [d EXCEPT !.hashed_password = hash_password(l.password),
              !.organization_type = l.org,
              !.otp_code = otp_code,
              !.otp_created_at = utcnow,
              !.otp_attempts = 0]

\* pending_user = await PendingUser.find_one(...); then hash_password,
\* generate_otp and the fields of the document to write
SignupFindPending(p) ==
    LET l == proc[p]
        found == find_one(pending, l.email)
    IN
    /\ l.pc = "s_find_pending"
    /\ \E c \in Codes :
          IF found = {}
          THEN proc' = [proc EXCEPT ![p] = [l EXCEPT !.pc = "s_insert", !.code = c,
                                                      !.pend = NewPendingUser(l, c, now)]]
          ELSE \E d \in found :
                  proc' = [proc EXCEPT ![p] =
                              [l EXCEPT !.pc = "s_save", !.code = c, !.seen = d,
                                        !.pend = UpdatePendingUser(d, l, c, now)]]
    /\ UNCHANGED <<users, pending, now, mailbox, faults>>

\* a signup that answers 500 when the mail was not sent
SignupRespond_needs_mail(p, l, sent) ==
    /\ mailbox' = IF sent THEN [mailbox EXCEPT ![l.email] = l.code] ELSE mailbox
    /\ IF sent
       THEN Respond(p, [l EXCEPT !.mail = "sent"], 200, "OTP sent successfully")
       ELSE Respond(p, [l EXCEPT !.mail = "failed"], 500, "Failed to send OTP email")

\* email_sent = await send_otp_email(...): True when SendGrid accepted the
\* message; signup only logs a failure and returns its success body
SignupRespond(p, l, sent) ==
    /\ mailbox' = IF sent THEN [mailbox EXCEPT ![l.email] = l.code] ELSE mailbox
    /\ Respond(p, [l EXCEPT !.mail = IF sent THEN "sent" ELSE "failed"],
               200, "OTP sent successfully")

\* await pending_user.save(), the branch of an existing pending user
SignupSave(p) ==
    LET l == proc[p] IN
    /\ l.pc = "s_save"
    /\ pending' = save(pending, l.pend)
    /\ \E sent \in BOOLEAN : SignupRespond(p, l, sent)
    /\ UNCHANGED <<users, now, faults>>

\* await pending_user.insert(), the branch of a new pending user
SignupInsert(p) ==
    LET l == proc[p]
        doc == [l.pend EXCEPT !.id = NewId]
    IN
    /\ l.pc = "s_insert"
    /\ pending' = insert(pending, doc)
    /\ \E sent \in BOOLEAN : SignupRespond(p, [l EXCEPT !.pend = doc], sent)
    /\ UNCHANGED <<users, now, faults>>

---------------------------------------------------------------------------
(* POST /auth/verify-otp *)

StartVerify(p) ==
    /\ Free(p)
    /\ \E e \in Emails, c \in Codes :
          proc' = [proc EXCEPT ![p] = [Idle EXCEPT !.op = "verify", !.utcnow = now, !.pc = "v_find",
                                        !.email = e, !.otp = c]]
    /\ UNCHANGED <<users, pending, now, mailbox, faults>>

\* verify_otp comparing the code before it looks at the lock
VerifyCheck_code_first(p, l, d) ==
    IF is_otp_expired(d, OTP_EXPIRY_MINUTES, now)
    THEN proc' = [proc EXCEPT ![p] = [l EXCEPT !.pc = "v_expired", !.seen = d, !.pend = d]]
    ELSE IF d.otp_code = l.otp
    THEN proc' = [proc EXCEPT ![p] = [l EXCEPT !.pc = "v_insert", !.seen = d, !.pend = d]]
    ELSE IF is_locked(d, MAX_OTP_ATTEMPTS)
    THEN Respond(p, [l EXCEPT !.seen = d, !.pend = d], 429, "Too many failed attempts")
    ELSE proc' = [proc EXCEPT ![p] =
                     [l EXCEPT !.pc = "v_save", !.seen = d,
                               !.pend = [d EXCEPT !.otp_attempts = d.otp_attempts + 1]]]

\* what verify_otp does with the pending user it found, up to its next await
VerifyCheck(p, l, d) ==
    IF is_otp_expired(d, OTP_EXPIRY_MINUTES, now)
    THEN proc' = [proc EXCEPT ![p] = [l EXCEPT !.pc = "v_expired", !.seen = d, !.pend = d]]
    ELSE IF is_locked(d, MAX_OTP_ATTEMPTS)
    THEN Respond(p, [l EXCEPT !.seen = d, !.pend = d], 429, "Too many failed attempts")
    ELSE IF d.otp_code # l.otp
    THEN proc' = [proc EXCEPT ![p] =
                     [l EXCEPT !.pc = "v_save", !.seen = d,
                               !.pend = [d EXCEPT !.otp_attempts = d.otp_attempts + 1]]]
    ELSE proc' = [proc EXCEPT ![p] = [l EXCEPT !.pc = "v_insert", !.seen = d, !.pend = d]]

\* pending_user = await PendingUser.find_one(...); 404 if there is none
VerifyFind(p) ==
    LET l == proc[p]
        found == find_one(pending, l.email)
    IN
    /\ l.pc = "v_find"
    /\ IF found = {}
       THEN Respond(p, l, 404, "No pending verification found")
       ELSE \E d \in found : VerifyCheck(p, l, d)
    /\ UNCHANGED <<users, pending, now, mailbox, faults>>

\* await pending_user.delete() of an expired pending user, then 400
VerifyExpired(p) ==
    LET l == proc[p] IN
    /\ l.pc = "v_expired"
    /\ pending' = delete(pending, l.pend)
    /\ Respond(p, l, 400, "OTP has expired")
    /\ UNCHANGED <<users, now, mailbox, faults>>

\* await pending_user.save() after otp_attempts += 1, then 400
VerifySave(p) ==
    LET l == proc[p] IN
    /\ l.pc = "v_save"
    /\ pending' = save(pending, l.pend)
    /\ Respond(p, [l EXCEPT !.remaining = MAX_OTP_ATTEMPTS - l.pend.otp_attempts],
               400, "Invalid OTP")
    /\ UNCHANGED <<users, now, mailbox, faults>>

\* user = User(...pending_user fields...); await user.insert()
VerifyInsert(p) ==
    LET l == proc[p]
        user == [id |-> NewId, email |-> l.pend.email,
                 hashed_password |-> l.pend.hashed_password, google_id |-> None,
                 organization_type |-> l.pend.organization_type,
                 is_email_verified |-> TRUE, is_active |-> TRUE]
    IN
    /\ l.pc = "v_insert"
    /\ users' = insert(users, user)
    /\ proc' = [proc EXCEPT ![p] = [l EXCEPT !.pc = "v_delete", !.user = user]]
    /\ UNCHANGED <<pending, now, mailbox, faults>>

\* await pending_user.delete(); create_access_token; the success body
VerifyDelete(p) ==
    LET l == proc[p] IN
    /\ l.pc = "v_delete"
    /\ pending' = delete(pending, l.pend)
    /\ Respond(p, [l EXCEPT !.token = create_access_token(l.user.email, l.user.id, now)],
               200, "Email verified successfully")
    /\ UNCHANGED <<users, now, mailbox, faults>>

\* a store operation of the promotion raises: the handler's
\* "except Exception" answers 400 and nothing of the step is written
VerifyInsertFails(p) ==
    LET l == proc[p] IN
    /\ l.pc = "v_insert"
    /\ faults < MaxFaults
    /\ faults' = faults + 1
    /\ Respond(p, l, 400, "Email verification failed")
    /\ UNCHANGED <<users, pending, now, mailbox>>

VerifyDeleteFails(p) ==
    LET l == proc[p] IN
    /\ l.pc = "v_delete"
    /\ faults < MaxFaults
    /\ faults' = faults + 1
    /\ Respond(p, l, 400, "Email verification failed")
    /\ UNCHANGED <<users, pending, now, mailbox>>

---------------------------------------------------------------------------
(* POST /auth/resend-otp *)

StartResend(p) ==
    /\ Free(p)
    /\ \E e \in Emails :
          proc' = [proc EXCEPT ![p] = [Idle EXCEPT !.op = "resend", !.utcnow = now, !.pc = "r_find",
                                        !.email = e]]
    /\ UNCHANGED <<users, pending, now, mailbox, faults>>

\* a resend that leaves the attempts and the time of the OTP as they were
ResendFind_code_only(p) ==
    LET l == proc[p]
        found == find_one(pending, l.email)
    IN
    /\ l.pc = "r_find"
    /\ IF found = {}
       THEN Respond(p, l, 404, "No pending verification found")
       ELSE \E d \in found, c \in Codes :
               proc' = [proc EXCEPT ![p] =
                           [l EXCEPT !.pc = "r_save", !.code = c, !.seen = d,
                                     !.pend = [d EXCEPT !.otp_code = c]]]
    /\ UNCHANGED <<users, pending, now, mailbox, faults>>

\* pending_user = await PendingUser.find_one(...); 404 if there is none;
\* then generate_otp and the new OTP fields of the local document
ResendFind(p) ==
    LET l == proc[p]
        found == find_one(pending, l.email)
    IN
    /\ l.pc = "r_find"
    /\ IF found = {}
       THEN Respond(p, l, 404, "No pending verification found")
       ELSE \E d \in found, c \in Codes :
               proc' = [proc EXCEPT ![p] =
                           [l EXCEPT !.pc = "r_save", !.code = c, !.seen = d,
                                     !.pend = [d EXCEPT !.otp_code = c,
                                                        !.otp_created_at = now,
                                                        !.otp_attempts = 0]]]
    /\ UNCHANGED <<users, pending, now, mailbox, faults>>

\* a resend that answers its success body whether or not the mail was sent
ResendSave_swallows(p) ==
    LET l == proc[p] IN
    /\ l.pc = "r_save"
    /\ pending' = save(pending, l.pend)
    /\ \E sent \in BOOLEAN :
          IF sent
          THEN /\ mailbox' = [mailbox EXCEPT ![l.email] = l.code]
               /\ Respond(p, [l EXCEPT !.mail = "sent"], 200, "New OTP sent successfully")
          ELSE /\ mailbox' = mailbox
               /\ Respond(p, [l EXCEPT !.mail = "failed"], 200, "New OTP sent successfully")
    /\ UNCHANGED <<users, now, faults>>

\* await pending_user.save(); then send_otp_email: 500 when it returns False
ResendSave(p) ==
    LET l == proc[p] IN
    /\ l.pc = "r_save"
    /\ pending' = save(pending, l.pend)
    /\ \E sent \in BOOLEAN :
          IF sent
          THEN /\ mailbox' = [mailbox EXCEPT ![l.email] = l.code]
               /\ Respond(p, [l EXCEPT !.mail = "sent"], 200, "New OTP sent successfully")
          ELSE /\ mailbox' = mailbox
               /\ Respond(p, [l EXCEPT !.mail = "failed"], 500, "Failed to send OTP email")
    /\ UNCHANGED <<users, now, faults>>

---------------------------------------------------------------------------
(* POST /auth/login *)

\* verify_password: False on an empty password or hash, else bcrypt.checkpw
\* of the SHA256 hex digest
verify_password(plain_password, hashed_password) ==
    IF plain_password = None \/ hashed_password = None
    THEN FALSE
    ELSE bcrypt_checkpw(sha256_hexdigest(plain_password), hashed_password)

\* hash_password(password), the hash kept as that of a user
HashPassword(p) ==
    /\ Free(p)
    /\ \E i \in 1..Len(HashInputs) :
          proc' = [proc EXCEPT ![p] =
                      [Idle EXCEPT !.op = "hash", !.pc = "done", !.password = HashInputs[i],
                                   !.user = [NoUser EXCEPT !.hashed_password =
                                                              hash_password(HashInputs[i])]]]
    /\ UNCHANGED <<users, pending, now, mailbox, faults>>

\* verify_password(plain, hash) of a password, or of none, against the hash kept
VerifyPassword(p) ==
    LET l == proc[p] IN
    /\ l.op \in {"hash", "check"}
    /\ \E plain \in {HashInputs[i] : i \in 1..Len(HashInputs)} \cup {None} :
          proc' = [proc EXCEPT ![p] =
                      [l EXCEPT !.op = "check", !.plain = plain,
                                !.detail = IF verify_password(plain, l.user.hashed_password)
                                           THEN "True" ELSE "False"]]
    /\ UNCHANGED <<users, pending, now, mailbox, faults>>

StartLogin(p) ==
    /\ Free(p)
    /\ \E e \in Emails, pw \in LoginPasswords :
          proc' = [proc EXCEPT ![p] = [Idle EXCEPT !.op = "login", !.utcnow = now, !.pc = "l_find",
                                        !.email = e, !.password = pw]]
    /\ UNCHANGED <<users, pending, now, mailbox, faults>>

\* a login that tests the flags of the user before the password
LoginCheck_flags_first(p, l, user) ==
    IF user = NoUser
    THEN Respond(p, l, 401, "Invalid email or password")
    ELSE IF ~user.is_email_verified
    THEN Respond(p, [l EXCEPT !.user = user], 403, "Please verify your email before logging in")
    ELSE IF ~user.is_active
    THEN Respond(p, [l EXCEPT !.user = user], 403, "Account is inactive")
    ELSE IF ~verify_password(l.password, user.hashed_password)
    THEN Respond(p, [l EXCEPT !.user = user], 401, "Invalid email or password")
    ELSE Respond(p, [l EXCEPT !.user = user,
                              !.token = create_access_token(user.email, user.id, now)],
                 200, "login")

\* a login that looks at the password only
LoginCheck_password_only(p, l, user) ==
    IF user = NoUser \/ user.hashed_password = None
    THEN Respond(p, l, 401, "Invalid email or password")
    ELSE IF ~verify_password(l.password, user.hashed_password)
    THEN Respond(p, [l EXCEPT !.user = user], 401, "Invalid email or password")
    ELSE Respond(p, [l EXCEPT !.user = user,
                              !.token = create_access_token(user.email, user.id, now)],
                 200, "login")

\* what login does with the result of its lookup (NoUser: no such user)
LoginCheck(p, l, user) ==
    IF user = NoUser \/ user.hashed_password = None
    THEN Respond(p, l, 401, "Invalid email or password")
    ELSE IF ~verify_password(l.password, user.hashed_password)
    THEN Respond(p, [l EXCEPT !.user = user], 401, "Invalid email or password")
    ELSE IF ~user.is_email_verified
    THEN Respond(p, [l EXCEPT !.user = user], 403, "Please verify your email before logging in")
    ELSE IF ~user.is_active
    THEN Respond(p, [l EXCEPT !.user = user], 403, "Account is inactive")
    ELSE Respond(p, [l EXCEPT !.user = user,
                              !.token = create_access_token(user.email, user.id, now)],
                 200, "login")

\* user = await User.find_one(...) and the rest of the handler
LoginFind(p) ==
    LET l == proc[p]
        found == find_one(users, l.email)
    IN
    /\ l.pc = "l_find"
    /\ IF found = {}
       THEN LoginCheck(p, l, NoUser)
       ELSE \E u \in found : LoginCheck(p, l, u)
    /\ UNCHANGED <<users, pending, now, mailbox, faults>>

---------------------------------------------------------------------------
(* GET /auth/google/callback *)

\* the HTTPException of the callback reaching the caller
RedirectFailure_raises(p, l) == Respond(p, l, 400, "Missing email or google_id")

\* RedirectResponse to <frontend>/auth/login?error=authentication_failed
RedirectFailure(p, l) == Respond(p, l, 307, "login?error=authentication_failed")

\* create_access_token, then RedirectResponse to <frontend>/auth/callback?token=...
RedirectToken(p, l) ==
    Respond(p, [l EXCEPT !.token = create_access_token(l.user.email, l.user.id, now)],
            307, "callback?token")

StartGoogle(p) ==
    /\ Free(p)
    /\ proc' = [proc EXCEPT ![p] = [Idle EXCEPT !.op = "google", !.utcnow = now, !.pc = "g_exchange"]]
    /\ UNCHANGED <<users, pending, now, mailbox, faults>>

\* a callback that goes on without a "sub" claim
GoogleExchange_no_sub_check(p) ==
    LET l == proc[p] IN
    /\ l.pc = "g_exchange"
    /\ \E outcome \in {"raises", "no_id_token", "id_token"},
          e \in Emails \cup {None}, g \in Subjects \cup {None} :
          IF outcome # "id_token"
          THEN RedirectFailure(p, [l EXCEPT !.outcome = outcome])
          ELSE IF e = None
          THEN RedirectFailure(p, [l EXCEPT !.outcome = "no_email"])
          ELSE proc' = [proc EXCEPT ![p] = [l EXCEPT !.pc = "g_find", !.email = e, !.sub = g,
                                                     !.outcome = "claims"]]
    /\ UNCHANGED <<users, pending, now, mailbox, faults>>

\* token = await get_access_token(code, ...): it raises, or answers without
\* an id_token, or with one whose claims hold an email and a sub or lack them
GoogleExchange(p) ==
    LET l == proc[p] IN
    /\ l.pc = "g_exchange"
    /\ \E outcome \in {"raises", "no_id_token", "id_token"},
          e \in Emails \cup {None}, g \in Subjects \cup {None} :
          IF outcome # "id_token"
          THEN RedirectFailure(p, [l EXCEPT !.outcome = outcome])
          ELSE IF e = None \/ g = None
          THEN RedirectFailure(p, [l EXCEPT !.outcome = IF e = None THEN "no_email"
                                                        ELSE "no_sub"])
          ELSE proc' = [proc EXCEPT ![p] = [l EXCEPT !.pc = "g_find", !.email = e, !.sub = g,
                                                     !.outcome = "claims"]]
    /\ UNCHANGED <<users, pending, now, mailbox, faults>>

\* a callback whose new User keeps the defaults of the model
GoogleFind_defaults(p) ==
    LET l == proc[p]
        found == find_one(users, l.email)
        user == [id |-> 0, email |-> l.email, hashed_password |-> None,
                 google_id |-> l.sub, organization_type |-> "researcher",
                 is_email_verified |-> FALSE, is_active |-> TRUE]
    IN
    /\ l.pc = "g_find"
    /\ IF found = {}
       THEN proc' = [proc EXCEPT ![p] = [l EXCEPT !.pc = "g_insert", !.user = user]]
       ELSE \E u \in found :
               IF u.google_id = None
               THEN proc' = [proc EXCEPT ![p] =
                                [l EXCEPT !.pc = "g_save",
                                          !.user = [u EXCEPT !.google_id = l.sub]]]
               ELSE RedirectToken(p, [l EXCEPT !.user = u])
    /\ UNCHANGED <<users, pending, now, mailbox, faults>>

\* a callback that sets google_id on every user it finds
GoogleFind_overwrites(p) ==
    LET l == proc[p]
        found == find_one(users, l.email)
        user == [id |-> 0, email |-> l.email, hashed_password |-> None,
                 google_id |-> l.sub, organization_type |-> "individual",
                 is_email_verified |-> TRUE, is_active |-> TRUE]
    IN
    /\ l.pc = "g_find"
    /\ IF found = {}
       THEN proc' = [proc EXCEPT ![p] = [l EXCEPT !.pc = "g_insert", !.user = user]]
       ELSE \E u \in found :
               proc' = [proc EXCEPT ![p] =
                           [l EXCEPT !.pc = "g_save",
                                     !.user = [u EXCEPT !.google_id = l.sub]]]
    /\ UNCHANGED <<users, pending, now, mailbox, faults>>

\* user = await User.find_one(...): a new User to insert, a google_id to
\* set on the user found, or nothing to write
GoogleFind(p) ==
    LET l == proc[p]
        found == find_one(users, l.email)
        user == [id |-> 0, email |-> l.email, hashed_password |-> None,
                 google_id |-> l.sub, organization_type |-> "individual",
                 is_email_verified |-> TRUE, is_active |-> TRUE]
    IN
    /\ l.pc = "g_find"
    /\ IF found = {}
       THEN proc' = [proc EXCEPT ![p] = [l EXCEPT !.pc = "g_insert", !.user = user]]
       ELSE \E u \in found :
               IF u.google_id = None
               THEN proc' = [proc EXCEPT ![p] =
                                [l EXCEPT !.pc = "g_save",
                                          !.user = [u EXCEPT !.google_id = l.sub]]]
               ELSE RedirectToken(p, [l EXCEPT !.user = u])
    /\ UNCHANGED <<users, pending, now, mailbox, faults>>

\* await user.insert(), the branch of a new user
GoogleInsert(p) ==
    LET l == proc[p]
        user == [l.user EXCEPT !.id = NewId]
    IN
    /\ l.pc = "g_insert"
    /\ users' = insert(users, user)
    /\ RedirectToken(p, [l EXCEPT !.user = user])
    /\ UNCHANGED <<pending, now, mailbox, faults>>

\* await user.save(), the branch of an existing user without google_id
GoogleSave(p) ==
    LET l == proc[p] IN
    /\ l.pc = "g_save"
    /\ users' = save(users, l.user)
    /\ RedirectToken(p, l)
    /\ UNCHANGED <<pending, now, mailbox, faults>>

\* a store operation of the callback raises: the handler's except Exception
\* answers the failure redirect
GoogleFindFails(p) ==
    LET l == proc[p] IN
    /\ l.pc = "g_find"
    /\ faults < MaxFaults
    /\ faults' = faults + 1
    /\ RedirectFailure(p, [l EXCEPT !.outcome = "store"])
    /\ UNCHANGED <<users, pending, now, mailbox>>

GoogleInsertFails(p) ==
    LET l == proc[p] IN
    /\ l.pc = "g_insert"
    /\ faults < MaxFaults
    /\ faults' = faults + 1
    /\ RedirectFailure(p, [l EXCEPT !.outcome = "store"])
    /\ UNCHANGED <<users, pending, now, mailbox>>

GoogleSaveFails(p) ==
    LET l == proc[p] IN
    /\ l.pc = "g_save"
    /\ faults < MaxFaults
    /\ faults' = faults + 1
    /\ RedirectFailure(p, [l EXCEPT !.outcome = "store"])
    /\ UNCHANGED <<users, pending, now, mailbox>>

---------------------------------------------------------------------------
(* get_current_user, the dependency of GET /auth/me and the protected routes *)

\* security = HTTPBearer(): the status it answers a request that carries no
\* bearer credential, before the dependency runs (403 in the FastAPI releases
\* up to 0.121, 401 in the later ones)
HTTPBearer_missing == {403, 401}

\* tokens signed with SECRET_KEY at time 0 that a caller may still hold: one
\* per email, and one without a "sub" claim
PresentedTokens == {create_access_token(s, 1, 0) : s \in Emails \cup {None}}

\* credentials: none, or the token of the response the caller holds, or that
\* token signed with another key, or a token of PresentedTokens; then
\* jwt.decode and the check of the "sub" claim
StartMe(p) ==
    LET held == proc[p].token IN
    /\ proc[p].pc \in {"idle", "done"}
    /\ \E auth \in {"absent", "bearer"},
          token \in {held, [held EXCEPT !.key = OtherKey]} \cup PresentedTokens :
          LET l == [Idle EXCEPT !.op = "me", !.utcnow = now, !.auth = auth,
                                !.token = IF auth = "absent" THEN NoToken ELSE token]
              email == jwt_decode(token, now)
          IN  IF auth = "absent"
              THEN \E status \in HTTPBearer_missing :
                      Respond(p, l, status, "Not authenticated")
              ELSE IF email = "ExpiredSignatureError"
              THEN Respond(p, l, 401, "Token has expired")
              ELSE IF email = "JWTError"
              THEN Respond(p, l, 401, "Could not validate credentials")
              ELSE IF email = None
              THEN Respond(p, l, 401, "Invalid authentication credentials")
              ELSE proc' = [proc EXCEPT ![p] = [l EXCEPT !.pc = "m_find", !.email = email]]
    /\ UNCHANGED <<users, pending, now, mailbox, faults>>

\* what get_current_user does with the result of its lookup
MeCheck(p, l, user) ==
    IF user = NoUser
    THEN Respond(p, l, 401, "User not found")
    ELSE IF ~user.is_active
    THEN Respond(p, l, 400, "Inactive user")
    ELSE Respond(p, [l EXCEPT !.user = user], 200, "current_user")

\* user = await User.find_one(...) and the rest of the dependency
MeFind(p) ==
    LET l == proc[p]
        found == find_one(users, l.email)
    IN
    /\ l.pc = "m_find"
    /\ IF found = {}
       THEN MeCheck(p, l, NoUser)
       ELSE \E u \in found : MeCheck(p, l, u)
    /\ UNCHANGED <<users, pending, now, mailbox, faults>>

---------------------------------------------------------------------------
(* Users stored before the run *)

\* a google_id stored before the run
StoredSubjects == {"g-0"}

\* User documents the collection may hold when the server starts: any flags,
\* a password hash or a google_id or both
StoredUsers ==
    {u \in [id : {1}, email : Emails,
            hashed_password : {None} \cup {hash_password(pw) : pw \in Passwords},
            google_id : {None} \cup StoredSubjects,
            organization_type : OrgTypes,
            is_email_verified : BOOLEAN, is_active : BOOLEAN] :
        u.hashed_password # None \/ u.google_id # None}

InitSession ==
    /\ users \in {{}} \cup {{u} : u \in StoredUsers}
    /\ pending = {}
    /\ now = 0
    /\ mailbox = [e \in Emails |-> None]
    /\ faults = 0
    /\ proc = [p \in Procs |-> Idle]

\* time passes between requests, on the scale of a token's life
TickHour ==
    /\ Quiet
    /\ now + TokenStep <= MaxTokenTime
    /\ now' = now + TokenStep
    /\ UNCHANGED <<users, pending, mailbox, faults, proc>>

---------------------------------------------------------------------------
(* Specifications *)

\* one request at a time: slot 1 serves every request, each to its response
NextSerial ==
    \/ Tick
    \/ \E p \in SerialProcs :
          \/ Return(p)
          \/ StartSignup(p) \/ SignupFindUser(p) \/ SignupFindPending(p)
          \/ SignupSave(p) \/ SignupInsert(p)
          \/ StartVerify(p) \/ VerifyFind(p) \/ VerifyExpired(p) \/ VerifySave(p)
          \/ VerifyInsert(p) \/ VerifyDelete(p)
          \/ StartResend(p) \/ ResendFind(p) \/ ResendSave(p)
          \/ StartLogin(p) \/ LoginFind(p)
          \/ StartGoogle(p) \/ GoogleExchange(p) \/ GoogleFind(p)
          \/ GoogleInsert(p) \/ GoogleSave(p)

Spec == Init /\ [][NextSerial]_vars

\* one request at a time, and the store operations of the promotion may raise
NextFault ==
    \/ NextSerial
    \/ \E p \in SerialProcs :
          \/ VerifyInsertFails(p) \/ VerifyDeleteFails(p)
          \/ GoogleFindFails(p) \/ GoogleInsertFails(p) \/ GoogleSaveFails(p)

SpecFault == Init /\ [][NextFault]_vars

\* NumProcs requests, one per slot, their steps interleaved
Next ==
    \/ Tick
    \/ \E p \in Procs :
          \/ StartSignup(p) \/ SignupFindUser(p) \/ SignupFindPending(p)
          \/ SignupSave(p) \/ SignupInsert(p)
          \/ StartVerify(p) \/ VerifyFind(p) \/ VerifyExpired(p) \/ VerifySave(p)
          \/ VerifyInsert(p) \/ VerifyDelete(p)
          \/ StartResend(p) \/ ResendFind(p) \/ ResendSave(p)
          \/ StartLogin(p) \/ LoginFind(p)
          \/ StartGoogle(p) \/ GoogleExchange(p) \/ GoogleFind(p)
          \/ GoogleInsert(p) \/ GoogleSave(p)

SpecConc == Init /\ [][Next]_vars

\* sessions of users stored before the run: login, the callback and the
\* bearer-token dependency, one request at a time, over the life of a token
NextSession ==
    \/ TickHour
    \/ \E p \in SerialProcs :
          \/ Return(p)
          \/ StartLogin(p) \/ LoginFind(p)
          \/ StartGoogle(p) \/ GoogleExchange(p) \/ GoogleFind(p)
          \/ GoogleInsert(p) \/ GoogleSave(p)
          \/ StartMe(p) \/ MeFind(p)

SpecSession == InitSession /\ [][NextSession]_vars

\* signup requests with any organization_type, one at a time
NextSignup ==
    \E p \in SerialProcs :
       \/ Return(p)
       \/ StartSignupAny(p) \/ SignupFindUser(p) \/ SignupFindPending(p)
       \/ SignupSave(p) \/ SignupInsert(p)

SpecSignup == Init /\ [][NextSignup]_vars

\* the state after a signup at time 0 and four verify_otp with a wrong code,
\* each served to its response
InitGuess ==
    /\ users = {}
    /\ pending = {[id |-> 1, email |-> "a@x.com",
                   hashed_password |-> hash_password("longpassword1"),
                   organization_type |-> "student", otp_code |-> "111111",
                   otp_created_at |-> 0, otp_attempts |-> MAX_OTP_ATTEMPTS - 1]}
    /\ now = 0
    /\ mailbox = [e \in Emails |-> "111111"]
    /\ faults = 0
    /\ proc = [p \in Procs |-> Idle]

\* NumProcs verify_otp requests, their steps interleaved, on a pending user
\* one failed attempt short of the lock
NextGuess ==
    \/ Tick
    \/ \E p \in Procs :
          \/ StartVerify(p) \/ VerifyFind(p) \/ VerifyExpired(p) \/ VerifySave(p)
          \/ VerifyInsert(p) \/ VerifyDelete(p)

SpecGuess == InitGuess /\ [][NextGuess]_vars

\* hash_password and verify_password applied to the passwords of HashInputs
NextPassword ==
    \E p \in SerialProcs : Return(p) \/ HashPassword(p) \/ VerifyPassword(p)

SpecPassword == Init /\ [][NextPassword]_vars

---------------------------------------------------------------------------
(* Properties *)

PendingOf(e) == {d \in pending : d.email = e}
UsersOf(e) == {u \in users : u.email = e}

\* slot p holds the response of a request `op`
Done(p, op) == proc[p].pc = "done" /\ proc[p].op = op

\* slot p holds the response of a verify_otp that found pending user proc[p].seen
VerifyDone(p) == Done(p, "verify") /\ proc[p].seen # NoPending

\* d's OTP is within its expiry window at time t
InWindow(d, t) == t <= d.otp_created_at + OTP_EXPIRY_MINUTES

\* the step is one of the request in slot p
StepOf(p) == proc'[p] # proc[p]

\* C1: the users collection holds at most one Identity per email.
C1_OneIdentityPerEmail ==
    \A u1 \in users, u2 \in users : u1.email = u2.email => u1 = u2

\* C2: a verify_otp that finds the stored code equal to the submitted one,
\* inside the expiry window and with fewer than 5 attempts, answers 200, an
\* Identity of that email exists verified and active, no pending user of
\* that email is left, and the token decodes to the email.
C2_CorrectCodePromotes ==
    \A p \in Procs :
       LET l == proc[p] IN
       (/\ VerifyDone(p)
        /\ l.seen.otp_code = l.otp
        /\ InWindow(l.seen, l.utcnow)
        /\ l.seen.otp_attempts < MAX_OTP_ATTEMPTS)
       => /\ l.status = 200
          /\ \E u \in UsersOf(l.email) : u.is_email_verified /\ u.is_active
          /\ PendingOf(l.email) = {}
          /\ jwt_decode(l.token, l.utcnow) = l.email

\* the correct code accepted on the last attempt before the lock
C2_Witness ==
    \E p \in Procs :
       /\ VerifyDone(p)
       /\ proc[p].seen.otp_code = proc[p].otp
       /\ proc[p].seen.otp_attempts = MAX_OTP_ATTEMPTS - 1
       /\ proc[p].status = 200

\* C3 as claimed: with 4 failed attempts recorded, the next verify_otp inside
\* the window answers 429 and creates no Identity.
C3_LockedAfterFour ==
    \A p \in Procs :
       LET l == proc[p] IN
       (VerifyDone(p) /\ InWindow(l.seen, l.utcnow) /\ l.seen.otp_attempts = 4)
       => l.status = 429 /\ l.user = NoUser

\* C3 as amended: with 5 failed attempts recorded, the next verify_otp inside
\* the window answers 429, whatever code it carries, and creates no Identity.
C3_LockedAfterFive ==
    \A p \in Procs :
       LET l == proc[p] IN
       (VerifyDone(p) /\ InWindow(l.seen, l.utcnow) /\ l.seen.otp_attempts = 5)
       => l.status = 429 /\ l.user = NoUser /\ l.token = NoToken

\* the sixth attempt carries the correct code and is refused
C3_Witness ==
    \E p \in Procs :
       /\ VerifyDone(p)
       /\ proc[p].seen.otp_attempts = 5
       /\ proc[p].seen.otp_code = proc[p].otp
       /\ proc[p].status = 429

\* C4: verify_otp on a pending user that is locked and inside its window
\* answers 429 and writes nothing, whatever code it carries; and a locked
\* pending user is unlocked only by a step of signup or resend.
C4_LockedIsFrozen ==
    [][ /\ \A p \in Procs : \A d \in PendingOf(proc[p].email) :
             (/\ proc[p].pc = "v_find"
              /\ StepOf(p)
              /\ d.otp_attempts >= MAX_OTP_ATTEMPTS
              /\ InWindow(d, now))
             => /\ proc'[p].pc = "done"
                /\ proc'[p].status = 429
                /\ proc'[p].token = NoToken
                /\ UNCHANGED <<users, pending, mailbox>>
        /\ \A d \in pending : \A e \in pending' :
             (/\ d.id = e.id
              /\ d.otp_attempts >= MAX_OTP_ATTEMPTS
              /\ e.otp_attempts < MAX_OTP_ATTEMPTS)
             => \E p \in Procs : StepOf(p) /\ proc[p].op \in {"signup", "resend"}
      ]_vars

\* a locked pending user refused the correct code
C4_Witness ==
    \E p \in Procs : \E d \in PendingOf(proc[p].email) :
       /\ Done(p, "verify")
       /\ proc[p].status = 429
       /\ d.otp_attempts = MAX_OTP_ATTEMPTS
       /\ d.otp_code = proc[p].otp
       /\ InWindow(d, proc[p].utcnow)

\* C5: verify_otp for an email whose pending user is past its window goes
\* on to delete it, whatever the code and the attempts, and then answers 400
\* "OTP has expired" with no pending user of the email left, no Identity
\* written and no token; verify_otp for an email with no pending user answers
\* 404 and writes nothing.
C5_ExpiredIsDeleted ==
    [][ \A p \in Procs :
          LET l == proc[p]
              m == proc'[p]
          IN
          /\ (/\ l.pc = "v_find"
              /\ StepOf(p)
              /\ \E d \in PendingOf(l.email) : ~InWindow(d, now))
             => m.pc = "v_expired" /\ UNCHANGED <<users, pending>>
          /\ (l.pc = "v_expired" /\ StepOf(p))
             => /\ m.pc = "done"
                /\ m.status = 400
                /\ m.detail = "OTP has expired"
                /\ m.token = NoToken
                /\ users' = users
                /\ \A d \in pending' : d.email # l.email
          /\ (l.pc = "v_find" /\ StepOf(p) /\ PendingOf(l.email) = {})
             => /\ m.pc = "done"
                /\ m.status = 404
                /\ UNCHANGED <<users, pending>>
      ]_vars

\* an expired pending user that was locked and was offered the correct code
C5_Witness ==
    \E p \in Procs :
       /\ VerifyDone(p)
       /\ ~InWindow(proc[p].seen, proc[p].utcnow)
       /\ proc[p].seen.otp_attempts = MAX_OTP_ATTEMPTS
       /\ proc[p].seen.otp_code = proc[p].otp
       /\ proc[p].status = 400

\* C6: verify_otp with a code other than the stored one, inside the window
\* and below the cap, answers 400 "Invalid OTP" with 5 minus the new counter
\* remaining; the stored document is the one found with otp_attempts one
\* higher; no Identity and no token.  The counter is within 0..5 everywhere.
C6_WrongCodeCounts ==
    /\ \A d \in pending : d.otp_attempts \in 0..MAX_OTP_ATTEMPTS
    /\ \A p \in Procs :
          LET l == proc[p] IN
          (/\ VerifyDone(p)
           /\ l.seen.otp_code # l.otp
           /\ InWindow(l.seen, l.utcnow)
           /\ l.seen.otp_attempts < MAX_OTP_ATTEMPTS)
          => /\ l.status = 400
             /\ l.detail = "Invalid OTP"
             /\ PendingOf(l.email) =
                   {[l.seen EXCEPT !.otp_attempts = l.seen.otp_attempts + 1]}
             /\ l.remaining = 5 - (l.seen.otp_attempts + 1)
             /\ l.user = NoUser
             /\ l.token = NoToken

\* the fifth wrong code: none remaining
C6_Witness ==
    \E p \in Procs :
       /\ VerifyDone(p)
       /\ proc[p].detail = "Invalid OTP"
       /\ proc[p].remaining = 0

\* C7: signup that finds a pending user (and so no Identity) answers 200 and
\* the stored document carries the newly generated code, otp_attempts 0 and
\* the current time; verify_otp with a code other than the stored one is
\* never accepted.
C7_SignupAgainResets ==
    \A p \in Procs :
       LET l == proc[p] IN
       /\ (Done(p, "signup") /\ l.seen # NoPending)
          => /\ l.status = 200
             /\ PendingOf(l.email) =
                   {[l.seen EXCEPT !.hashed_password = hash_password(l.password),
                                   !.organization_type = l.org,
                                   !.otp_code = l.code,
                                   !.otp_created_at = l.utcnow,
                                   !.otp_attempts = 0]}
       /\ (VerifyDone(p) /\ l.seen.otp_code # l.otp)
          => l.status \in {400, 429} /\ l.token = NoToken /\ l.user = NoUser

\* a second signup replaced an older code that had failed attempts against it
C7_Witness ==
    \E p \in Procs :
       /\ Done(p, "signup")
       /\ proc[p].seen # NoPending
       /\ proc[p].seen.otp_code # proc[p].code
       /\ proc[p].seen.otp_attempts > 0
       /\ proc[p].seen.otp_created_at < proc[p].utcnow

\* C8: signup for an email that has an Identity answers 400 "Email already
\* registered" in its first step, sends no mail and writes nothing.
C8_SignupOfRegisteredEmail ==
    [][ \A p \in Procs :
          (/\ proc[p].pc = "s_find_user"
           /\ StepOf(p)
           /\ \E u \in users : u.email = proc[p].email)
          => /\ proc'[p].pc = "done"
             /\ proc'[p].status = 400
             /\ proc'[p].detail = "Email already registered"
             /\ proc'[p].mail = "none"
             /\ UNCHANGED <<users, pending, mailbox>>
      ]_vars

\* a signup refused while a pending user of the same email is still stored
C8_Witness ==
    \E p \in Procs :
       /\ Done(p, "signup")
       /\ proc[p].status = 400
       /\ UsersOf(proc[p].email) # {}
       /\ PendingOf(proc[p].email) # {}

\* C9: the pending_users collection holds at most one document per email.
C9_OnePendingPerEmail ==
    \A d1 \in pending, d2 \in pending : d1.email = d2.email => d1 = d2

\* C10: when the insert of the promotion raises, the pending user is kept,
\* no token is issued and the caller gets an error; and verify_otp creates
\* at most one Identity per email (Identities of verify_otp carry a password
\* hash), whatever raises between the insert and the delete.
C10_PromotionIsAtomic ==
    /\ \A p \in Procs :
          LET l == proc[p] IN
          (Done(p, "verify") /\ l.detail = "Email verification failed" /\ l.user = NoUser)
          => l.status = 400 /\ l.token = NoToken /\ l.seen \in pending
    /\ \A u1 \in users, u2 \in users :
          (/\ u1.email = u2.email
           /\ u1.hashed_password # None
           /\ u2.hashed_password # None)
          => u1 = u2

\* C11: once verify_otp has created the Identity of an email (Identities of
\* verify_otp carry a password hash) and no pending user of that email is
\* stored, no step of any request stores a pending user of that email.
C11_VerifiedIsTerminal ==
    [][ \A e \in Emails :
          (/\ \E u \in UsersOf(e) : u.hashed_password # None
           /\ PendingOf(e) = {})
          => \A d \in pending' : d.email # e
      ]_vars

\* C12: a login with the password of a stored Identity whose
\* is_email_verified is false answers 403 and carries no token; so does a
\* login with the password of an Identity whose is_active is false.
C12_UnverifiedOrInactiveRefused ==
    \A p \in Procs : \A u \in UsersOf(proc[p].email) :
       LET l == proc[p] IN
       (/\ Done(p, "login")
        /\ verify_password(l.password, u.hashed_password)
        /\ (~u.is_email_verified \/ ~u.is_active))
       => /\ l.status = 403
          /\ l.token = NoToken
          /\ ~u.is_email_verified => l.detail = "Please verify your email before logging in"
          /\ u.is_email_verified => l.detail = "Account is inactive"

\* the password of a verified Identity that is not active
C12_Witness ==
    \E p \in Procs : \E u \in UsersOf(proc[p].email) :
       /\ Done(p, "login")
       /\ verify_password(proc[p].password, u.hashed_password)
       /\ u.is_email_verified
       /\ ~u.is_active
       /\ proc[p].status = 403

\* C13: a login whose password matches the hash of no stored Identity of its
\* email (no Identity of that email, or another password, or an Identity
\* with no password hash) answers 401 "Invalid email or password" whatever
\* the flags of the Identity, carries no token and writes nothing.
C13_LoginFailuresAlike ==
    [][ \A p \in Procs :
          LET l == proc[p]
              m == proc'[p]
          IN
          (/\ l.pc = "l_find"
           /\ StepOf(p)
           /\ \A u \in UsersOf(l.email) : ~verify_password(l.password, u.hashed_password))
          => /\ m.pc = "done"
             /\ m.status = 401
             /\ m.detail = "Invalid email or password"
             /\ m.token = NoToken
             /\ UNCHANGED <<users, pending, mailbox>>
      ]_vars

\* an Identity of the identity provider only, unverified and inactive
C13_Witness ==
    \E p \in Procs : \E u \in UsersOf(proc[p].email) :
       /\ Done(p, "login")
       /\ u.hashed_password = None
       /\ ~u.is_email_verified
       /\ ~u.is_active
       /\ proc[p].status = 401

\* C14: a callback for an email that has an Identity inserts nothing; it
\* writes only to an Identity whose google_id is absent, and what it writes is
\* that Identity with google_id set to the "sub" claim and every other field
\* as it was; no step changes a google_id that is set; the token it issues is
\* that of the Identity found.
C14_CallbackOfKnownEmail ==
    [][ /\ \A p \in Procs :
             LET l == proc[p]
                 m == proc'[p]
             IN
             /\ (l.pc = "g_find" /\ StepOf(p) /\ UsersOf(l.email) # {})
                => /\ users' = users
                   /\ \/ /\ m.pc = "g_save"
                         /\ \E u \in UsersOf(l.email) :
                               u.google_id = None /\ m.user = [u EXCEPT !.google_id = l.sub]
                      \/ /\ m.pc = "done"
                         /\ m.detail = "callback?token"
                         /\ m.user \in UsersOf(l.email)
                         /\ m.user.google_id # None
                         /\ m.token = create_access_token(l.email, m.user.id, now)
             /\ (l.pc = "g_save" /\ StepOf(p))
                => \E u \in UsersOf(l.email) :
                      /\ u.google_id = None
                      /\ users' = (users \ {u}) \cup {[u EXCEPT !.google_id = l.sub]}
                      /\ m.pc = "done"
                      /\ m.detail = "callback?token"
                      /\ m.token = create_access_token(u.email, u.id, now)
        /\ \A u \in users : u.google_id # None => u \in users'
      ]_vars

\* the callback carried another "sub" than the google_id stored, and a token
\* was issued
C14_Witness ==
    \E p \in Procs : \E u \in UsersOf(proc[p].email) :
       /\ Done(p, "google")
       /\ proc[p].detail = "callback?token"
       /\ u.google_id \notin {None, proc[p].sub}
       /\ u.hashed_password # None
       /\ proc[p].token.user_id = u.id

\* C15: a callback for an email that has no Identity goes on to insert one
\* User: verified, active, organization_type "individual", google_id the
\* "sub" claim, no password hash; it is then the only Identity of the email,
\* and the token issued carries the email as "sub".
C15_CallbackOfNewEmail ==
    [][ \A p \in Procs :
          LET l == proc[p]
              m == proc'[p]
          IN
          /\ (l.pc = "g_find" /\ StepOf(p) /\ UsersOf(l.email) = {})
             => m.pc = "g_insert" /\ users' = users
          /\ (l.pc = "g_insert" /\ StepOf(p))
             => \E u \in users' :
                   /\ u \notin users
                   /\ users' = users \cup {u}
                   /\ {v \in users' : v.email = l.email} = {u}
                   /\ u = [id |-> u.id, email |-> l.email, hashed_password |-> None,
                           google_id |-> l.sub, organization_type |-> "individual",
                           is_email_verified |-> TRUE, is_active |-> TRUE]
                   /\ l.sub # None
                   /\ m.pc = "done"
                   /\ m.detail = "callback?token"
                   /\ m.token = create_access_token(l.email, u.id, now)
                   /\ jwt_decode(m.token, now) = l.email
      ]_vars

\* the callback created the Identity of an email that has a pending user
C15_Witness ==
    \E p \in Procs :
       /\ Done(p, "google")
       /\ proc[p].detail = "callback?token"
       /\ UsersOf(proc[p].email) = {proc[p].user}
       /\ proc[p].user.hashed_password = None
       /\ proc[p].user.google_id = proc[p].sub
       /\ PendingOf(proc[p].email) # {}

\* C16: every response of the callback is a redirect; when the exchange
\* raised, or the answer had no id_token, or its claims had no email or no
\* sub, or a store operation raised, it is the redirect to
\* login?error=authentication_failed, with no token, and the step that ends
\* so inserts and changes no Identity.
C16_CallbackFailureRedirects ==
    [][ \A p \in Procs :
          LET l == proc[p]
              m == proc'[p]
          IN
          (l.op = "google" /\ StepOf(p) /\ m.op = "google" /\ m.pc = "done")
          => /\ m.status = 307
             /\ m.outcome \in {"raises", "no_id_token", "no_email", "no_sub", "store", "claims"}
             /\ m.outcome # "claims"
                => /\ m.detail = "login?error=authentication_failed"
                   /\ m.token = NoToken
                   /\ users' = users
             /\ m.outcome = "claims" => m.detail = "callback?token"
      ]_vars

\* the insert of the new User raised
C16_Witness ==
    \E p \in Procs :
       /\ Done(p, "google")
       /\ proc[p].outcome = "store"
       /\ proc[p].user # NoUser
       /\ UsersOf(proc[p].email) = {}
       /\ proc[p].detail = "login?error=authentication_failed"

\* C17: the bearer-token dependency returns a user only for a token signed
\* with SECRET_KEY, not expired, whose "sub" is the email of a stored active
\* Identity, and the user returned is that Identity; it answers 401 when the
\* request carries no token, when the token is expired or not valid and when
\* no Identity has the email of its "sub"; it answers 400 when that Identity
\* is not active.
C17_BearerDependency ==
    \A p \in Procs :
       LET l == proc[p]
           valid == /\ l.auth = "bearer"
                    /\ l.token.key = SECRET_KEY
                    /\ l.token.exp >= l.utcnow
                    /\ l.token.sub # None
       IN
       Done(p, "me")
       => /\ l.status = 200
             => /\ valid
                /\ l.user \in UsersOf(l.token.sub)
                /\ l.user.is_active
          /\ ~valid => l.status = 401
          /\ (valid /\ UsersOf(l.token.sub) = {}) => l.status = 401
          /\ (valid /\ \E u \in UsersOf(l.token.sub) : ~u.is_active) => l.status = 400
          /\ (valid /\ \E u \in UsersOf(l.token.sub) : u.is_active) => l.status = 200

\* C18: a token of login or of the callback carries "exp" 60 minutes after
\* the time of the request and the email of the user as "sub"; the dependency
\* decodes a token signed with SECRET_KEY to its "sub" at any time up to its
\* "exp" and answers 401 "Token has expired" at any later time; a token
\* signed with another key always gets 401 "Could not validate credentials".
C18_TokenLifetime ==
    \A p \in Procs :
       LET l == proc[p] IN
       /\ (l.op \in {"login", "google"} /\ l.pc = "done" /\ l.token # NoToken)
          => /\ l.token.exp = l.utcnow + 60
             /\ l.token.sub = l.user.email
             /\ l.token.key = SECRET_KEY
       /\ (l.op = "me" /\ l.auth = "bearer" /\ l.token.key = SECRET_KEY /\ l.token.sub # None)
          => /\ l.utcnow <= l.token.exp
                => /\ l.email = l.token.sub
                   /\ l.pc = "done"
                      => l.detail \in {"current_user", "Inactive user", "User not found"}
             /\ l.utcnow > l.token.exp
                => l.pc = "done" /\ l.status = 401 /\ l.detail = "Token has expired"
       /\ (l.op = "me" /\ l.auth = "bearer" /\ l.token.key # SECRET_KEY)
          => /\ l.pc = "done"
             /\ l.status = 401
             /\ l.detail = "Could not validate credentials"

\* a token issued during the run, accepted at the very time of its "exp"
C18_Witness ==
    \E p \in Procs :
       /\ Done(p, "me")
       /\ proc[p].status = 200
       /\ proc[p].token.exp > ACCESS_TOKEN_EXPIRE_MINUTES
       /\ proc[p].utcnow = proc[p].token.exp

\* C19: resend_otp for an email with no pending user answers 404 and writes
\* nothing; for an email with a pending user, expired or locked or neither,
\* it goes on to save that document with the generated code, otp_attempts 0
\* and the current time and every other field as it was, so that the stored
\* document is neither locked nor expired; it writes no Identity.
C19_ResendRestarts ==
    [][ \A p \in Procs :
          LET l == proc[p]
              m == proc'[p]
          IN
          /\ (l.pc = "r_find" /\ StepOf(p) /\ PendingOf(l.email) = {})
             => /\ m.pc = "done"
                /\ m.status = 404
                /\ UNCHANGED <<users, pending, mailbox>>
          /\ (l.pc = "r_find" /\ StepOf(p) /\ PendingOf(l.email) # {})
             => /\ m.pc = "r_save"
                /\ m.code \in Codes
                /\ UNCHANGED <<users, pending, mailbox>>
          /\ (l.pc = "r_save" /\ StepOf(p))
             => \E d \in PendingOf(l.email) :
                   LET e == [d EXCEPT !.otp_code = l.code,
                                      !.otp_created_at = now,
                                      !.otp_attempts = 0]
                   IN  /\ pending' = (pending \ {d}) \cup {e}
                       /\ ~is_locked(e, MAX_OTP_ATTEMPTS)
                       /\ ~is_otp_expired(e, OTP_EXPIRY_MINUTES, now)
                       /\ users' = users
                       /\ m.pc = "done"
                       /\ m.status \in {200, 500}
      ]_vars

\* the pending user was locked and expired, and the resend stored a new code
C19_Witness ==
    \E p \in Procs :
       LET l == proc[p] IN
       /\ Done(p, "resend")
       /\ l.seen # NoPending
       /\ is_locked(l.seen, MAX_OTP_ATTEMPTS)
       /\ is_otp_expired(l.seen, OTP_EXPIRY_MINUTES, l.utcnow)
       /\ l.seen.otp_code # l.code
       /\ PendingOf(l.email) = {[l.seen EXCEPT !.otp_code = l.code,
                                               !.otp_created_at = l.utcnow,
                                               !.otp_attempts = 0]}

\* C20: a signup whose mail was not sent still answers 200 and the pending
\* user of its email is stored with the generated code, no attempts and the
\* time of the request; a verify_otp with the stored code, inside the window
\* and below the cap, answers 200 also when that code was never delivered;
\* and a resend_otp that finds the pending user is not answered 404.
C20_SignupSurvivesMailFailure ==
    \A p \in Procs :
       LET l == proc[p] IN
       /\ (Done(p, "signup") /\ l.mail = "failed")
          => /\ l.status = 200
             /\ \E d \in PendingOf(l.email) :
                   /\ d.otp_code = l.code
                   /\ d.otp_attempts = 0
                   /\ d.otp_created_at = l.utcnow
                   /\ d.hashed_password = hash_password(l.password)
       /\ (/\ VerifyDone(p)
           /\ mailbox[l.email] # l.seen.otp_code
           /\ l.seen.otp_code = l.otp
           /\ InWindow(l.seen, l.utcnow)
           /\ l.seen.otp_attempts < MAX_OTP_ATTEMPTS)
          => l.status = 200 /\ UsersOf(l.email) # {}
       /\ (Done(p, "resend") /\ l.seen # NoPending)
          => l.status \in {200, 500} /\ l.seen.id \in {d.id : d \in PendingOf(l.email)}

\* an email verified although no mail was ever delivered to it
C20_Witness ==
    \E p \in Procs :
       /\ VerifyDone(p)
       /\ mailbox[proc[p].email] = None
       /\ proc[p].status = 200

\* C21: a resend_otp whose mail was not sent answers 500 "Failed to send OTP
\* email"; a resend_otp that answers 200 has delivered the code it generated.
C21_ResendSurfacesMailFailure ==
    \A p \in Procs :
       LET l == proc[p] IN
       /\ (Done(p, "resend") /\ l.mail = "failed")
          => /\ l.status = 500
             /\ l.detail = "Failed to send OTP email"
       /\ (Done(p, "resend") /\ l.status = 200)
          => /\ l.mail = "sent"
             /\ mailbox[l.email] = l.code

\* the mail failed after the new code was stored: the code stored is not the
\* code last delivered
C21_Witness ==
    \E p \in Procs : \E d \in PendingOf(proc[p].email) :
       /\ Done(p, "resend")
       /\ proc[p].mail = "failed"
       /\ proc[p].status = 500
       /\ d.otp_code = proc[p].code
       /\ mailbox[proc[p].email] \notin {None, d.otp_code}

\* C22: every stored Identity has a password hash or a google_id.
C22_HashOrProviderId ==
    \A u \in users : u.hashed_password # None \/ u.google_id # None

\* Identities of each kind are stored: one of verify_otp, with a password
\* hash alone, and one of the callback, with a google_id alone
C22_Witness ==
    /\ \E u \in users : u.hashed_password # None /\ u.google_id = None
    /\ \E u \in users : u.hashed_password = None /\ u.google_id # None

\* C23: a signup request goes on to the handler exactly when its
\* organization_type is one of law_firm, corporate, government, ngo,
\* individual, student, researcher, other; any other value is answered 422
\* and no pending user is written for it.
C23_EightOrganizationTypes ==
    [][ \A p \in Procs :
          LET l == proc[p]
              m == proc'[p]
          IN
          (l.pc = "idle" /\ StepOf(p) /\ m.op = "signup")
          => /\ pending' = pending
             /\ m.org \in {"law_firm", "corporate", "government", "ngo", "individual",
                           "student", "researcher", "other"}
                => m.pc = "s_find_user"
             /\ m.org \notin {"law_firm", "corporate", "government", "ngo", "individual",
                              "student", "researcher", "other"}
                => m.pc = "done" /\ m.status = 422
      ]_vars

\* C24: verify_password(p, hash_password(p)) is true for every password p
\* that is not empty, and verify_password(p1, hash_password(p2)) is false for
\* every p1 other than p2, passwords longer than 72 bytes included.
C24_HashRoundTrip ==
    \A p \in Procs :
       LET l == proc[p] IN
       l.op = "check"
       => /\ l.user.hashed_password = hash_password(l.password)
          /\ (l.plain = l.password) => l.detail = "True"
          /\ (l.plain # l.password) => l.detail = "False"

\* two passwords longer than 72 bytes with the same first 72 bytes
C24_Witness ==
    \E p \in Procs :
       LET l == proc[p] IN
       /\ l.op = "check"
       /\ l.plain # l.password
       /\ Len(l.plain) > BCRYPT_MAX_BYTES
       /\ Len(l.password) > BCRYPT_MAX_BYTES
       /\ SubSeq(l.plain, 1, BCRYPT_MAX_BYTES) = SubSeq(l.password, 1, BCRYPT_MAX_BYTES)
       /\ l.detail = "False"

\* C25: verify_otp takes the pending user it finds as expired exactly when
\* the time is later than otp_created_at + 10, and otherwise as locked
\* exactly when otp_attempts >= 5; the stored code presented at
\* otp_created_at + 10 or before, with fewer than 5 attempts, is accepted
\* and the request answers 200; a pending user has no field for either fact.
C25_ExpiryAndLockBoundaries ==
    [][ /\ \A d \in pending :
             DOMAIN d = {"id", "email", "hashed_password", "organization_type",
                         "otp_code", "otp_created_at", "otp_attempts"}
        /\ \A p \in Procs :
             LET l == proc[p]
                 m == proc'[p]
             IN
             /\ \A d \in PendingOf(l.email) :
                   (l.pc = "v_find" /\ StepOf(p))
                   => /\ (now > d.otp_created_at + 10) <=> (m.pc = "v_expired")
                      /\ (now <= d.otp_created_at + 10 /\ d.otp_attempts >= 5)
                         <=> (m.pc = "done" /\ m.status = 429)
                      /\ (now <= d.otp_created_at + 10 /\ d.otp_attempts < 5
                          /\ d.otp_code = l.otp)
                         <=> (m.pc = "v_insert")
             /\ (l.pc = "v_insert" /\ StepOf(p)) => m.pc = "v_delete"
             /\ (l.pc = "v_delete" /\ StepOf(p)) => m.pc = "done" /\ m.status = 200
      ]_vars

\* the stored code accepted at the last minute of its window, on the last
\* attempt before the lock
C25_Witness ==
    \E p \in Procs :
       /\ VerifyDone(p)
       /\ proc[p].utcnow = proc[p].seen.otp_created_at + 10
       /\ proc[p].seen.otp_attempts = 4
       /\ proc[p].seen.otp_code = proc[p].otp
       /\ proc[p].status = 200

\* the requests that have compared a code other than c with the stored code
\* c issued at time t
Mismatches(c, t) ==
    {p \in Procs :
        /\ proc[p].op = "verify"
        /\ proc[p].seen.otp_code = c
        /\ proc[p].seen.otp_created_at = t
        /\ proc[p].otp # c
        /\ \/ proc[p].pc = "v_save"
           \/ proc[p].pc = "done" /\ proc[p].detail = "Invalid OTP"}

\* C26: at most 5 codes other than the stored one are compared with one
\* issued code: the 4 compared before the run (the attempts recorded in
\* InitGuess) and those of the requests of the run.
C26_AtMostFiveGuesses ==
    (MAX_OTP_ATTEMPTS - 1) + Cardinality(Mismatches("111111", 0)) <= 5

\* C27: when a resend_otp has answered 200 for an email, no request is under
\* way and no mail has failed, every pending user of the email carries the
\* code of the last mail delivered to it.
C27_StoredCodeIsLastDispatched ==
    \A e \in Emails :
       (/\ Quiet
        /\ \E p \in Procs : Done(p, "resend") /\ proc[p].email = e /\ proc[p].status = 200
        /\ \A p \in Procs : proc[p].mail # "failed")
       => \A d \in PendingOf(e) : d.otp_code = mailbox[e]

\* C28: between requests, no email has both a pending user and an Identity.
C28_PendingOrIdentity ==
    Quiet => \A e \in Emails : PendingOf(e) = {} \/ UsersOf(e) = {}

=============================================================================
